---- MODULE Spec2Model ----
(***************************************************************************)
(* A model of icai_slot_alert.py: the module-level credential check, main  *)
(* with its course loop and teardown, check_course_availability with its   *)
(* dropdown cascade and the classification of the result page, and         *)
(* send_telegram_notification.                                             *)
(***************************************************************************)
EXTENDS Integers, Sequences, FiniteSets, TLC

\* ------------------------------------------------------------------ bounds
\* Phrases concatenated into the source of a result page of the classification
\* specification.
MaxPhrases == 2
\* Phrases concatenated into the source of a result page of a whole run.
RunPhrases == 1
\* Tables on a result page of the classification specification.
MaxTables == 2
\* Tables on a result page of a whole run.
RunTables == 1
\* Rows of one table.
MaxRows == 2

\* ------------------------------------------------------- program constants
REGION == "Southern"
POU == "HYDERABAD"
COURSES_TO_MONITOR ==
    << "Advanced (ICITSS) MCS Course",
       "ICITSS - Information Technology",
       "ICITSS - Orientation Course" >>

\* The indicators of the "no batch" loop, in the order the code tries them.
\* The page text is a sequence of words, an indicator a run of words.
no_batch_indicators ==
    << << "no", "batch", "available" >>,
       << "no", "batch" >>,
       << "no", "records", "found" >>,
       << "batch", "not", "available" >> >>

\* len(table_text) > 50
MinTextLen == 50

\* ------------------------------------------------------------ page content
\* str.lower() on one word of the page source.
Lower(w) ==
    CASE w = "No" -> "no"
      [] w = "NO" -> "no"
      [] w = "Batch" -> "batch"
      [] w = "BATCH" -> "batch"
      [] w = "Available" -> "available"
      [] w = "RECORDS" -> "records"
      [] w = "FOUND" -> "found"
      [] w = "Not" -> "not"
      [] w = "Slots" -> "slots"
      [] OTHER -> w

\* driver.page_source.lower()
LowerText(text) == [k \in 1..Len(text) |-> Lower(text[k])]

\* indicator in page_text: the indicator occurs as a contiguous run.
Occurs(indicator, text) ==
    \E k \in 0..(Len(text) - Len(indicator)) :
        \A j \in 1..Len(indicator) : text[k + j] = indicator[j]

\* The pieces of text a page source is made of.
Phrases ==
    { << "No", "Batch", "Available" >>,
      << "NO", "RECORDS", "FOUND" >>,
      << "Batch", "Not", "Available" >>,
      << "no", "BATCH" >>,
      << "no" >>,
      << "Batch" >>,
      << "Slots", "open" >> }

RECURSIVE SourcesOf(_)
SourcesOf(n) ==
    IF n = 0 THEN { << >> }
    ELSE LET shorter == SourcesOf(n - 1)
         IN  shorter \cup { s \o p : s \in shorter, p \in Phrases }

\* The text of a table element: body characters between pad characters of
\* leading and trailing whitespace.
TableTexts ==
    { [pad |-> 0, body |-> 0],
      [pad |-> 1, body |-> MinTextLen],
      [pad |-> 0, body |-> MinTextLen + 1] }

Tables == [rows : 0..MaxRows, text : TableTexts]

RECURSIVE TableSeqs(_)
TableSeqs(n) ==
    IF n = 0 THEN { << >> }
    ELSE LET shorter == TableSeqs(n - 1)
         IN  shorter \cup { Append(s, t) : s \in shorter, t \in Tables }

PagesUpTo(nPhrases, nTables) ==
    [source : SourcesOf(nPhrases), tables : TableSeqs(nTables)]

Pages == PagesUpTo(MaxPhrases, MaxTables)
RunPages == PagesUpTo(RunPhrases, RunTables)

\* The page before any result was rendered.
NoPage == [source |-> << >>, tables |-> << >>]

\* ---------------------------------------------------------- classification
\* any(indicator in page_text for indicator in no_batch_indicators), on the
\* lower-cased page source.
HasIndicator(source) ==
    \E n \in 1..Len(no_batch_indicators) :
        Occurs(no_batch_indicators[n], LowerText(source))

\* len(driver.find_elements(By.CSS_SELECTOR, "table tr")): the rows of every
\* table of the page.
RECURSIVE batch_rows(_)
batch_rows(tables) ==
    IF tables = << >> THEN 0
    ELSE Head(tables).rows + batch_rows(Tail(tables))

\* len(data_table.text.strip())
StrippedLen(text) == text.body

\* The driver calls of the classification that may raise, "none" for a
\* classification whose reads all succeed.
ReadFaults == { "none", "page_source", "find_elements", "table" }

\* Classification with the row count tried before the indicators.
ClassificationRowsFirst(p, fault) ==
    IF fault = "page_source" THEN [value |-> FALSE, log |-> "error"]
    ELSE IF fault = "find_elements" THEN [value |-> FALSE, log |-> "error"]
    ELSE IF batch_rows(p.tables) > 1 THEN [value |-> TRUE, log |-> "slots"]
    ELSE IF HasIndicator(p.source) THEN [value |-> FALSE, log |-> "no_slots"]
    ELSE [value |-> FALSE, log |-> "undetermined"]

\* Classification asking for more than two rows.
ClassificationStrictRows(p, fault) ==
    IF fault = "page_source" THEN [value |-> FALSE, log |-> "error"]
    ELSE IF HasIndicator(p.source) THEN [value |-> FALSE, log |-> "no_slots"]
    ELSE IF fault = "find_elements" THEN [value |-> FALSE, log |-> "error"]
    ELSE IF batch_rows(p.tables) > 2 THEN [value |-> TRUE, log |-> "slots"]
    ELSE IF p.tables = << >> THEN [value |-> FALSE, log |-> "undetermined"]
    ELSE IF fault = "table" THEN [value |-> FALSE, log |-> "error"]
    ELSE IF StrippedLen(Head(p.tables).text) > MinTextLen
         THEN [value |-> TRUE, log |-> "slots"]
    ELSE [value |-> FALSE, log |-> "undetermined"]

\* Lines 223-269: the value returned and the line logged. A read that raises
\* anything but NoSuchElementException is caught at line 267.
Classification(p, fault) ==
    IF fault = "page_source" THEN [value |-> FALSE, log |-> "error"]
    ELSE IF HasIndicator(p.source) THEN [value |-> FALSE, log |-> "no_slots"]
    ELSE IF fault = "find_elements" THEN [value |-> FALSE, log |-> "error"]
    ELSE IF batch_rows(p.tables) > 1 THEN [value |-> TRUE, log |-> "slots"]
    ELSE IF p.tables = << >> THEN [value |-> FALSE, log |-> "undetermined"]
    ELSE IF fault = "table" THEN [value |-> FALSE, log |-> "error"]
    ELSE IF StrippedLen(Head(p.tables).text) > MinTextLen
         THEN [value |-> TRUE, log |-> "slots"]
    ELSE [value |-> FALSE, log |-> "undetermined"]

\* ------------------------------------------------------------------- state
VARIABLES
    env,                \* TELEGRAM_BOT_TOKEN and TELEGRAM_CHAT_ID as read
    pc,                 \* the position of the process
    driver,             \* main's driver: "None", "alive" or "quit"
    course_i,           \* the index of the loop's course
    available_courses,  \* main's list
    stage,              \* the state of the running course-check
    dom,                \* the options of the unit and course dropdowns
    selected,           \* the labels selected in the three dropdowns
    page,               \* the result page rendered after the click
    result,             \* what check_course_availability returns and logs
    navigated,          \* the courses driver.get was called for
    probed,             \* the courses check_course_availability was called for
    outcomes,           \* per course attempted, how its check ended
    sent,               \* the courses send_telegram_notification was called for
    lastSend,           \* how the latest notification ended
    acquireAttempts,    \* calls of setup_chrome_driver
    quits,              \* calls of driver.quit
    quitWarning,        \* driver.quit raised and the warning was logged
    exitPending,        \* sys.exit(1) was raised inside main
    exitCode            \* the exit status of the process, -1 while it runs

vars ==
    << env, pc, driver, course_i, available_courses, stage, dom, selected,
       page, result, navigated, probed, outcomes, sent, lastSend,
       acquireAttempts, quits, quitWarning, exitPending, exitCode >>

NumCourses == Len(COURSES_TO_MONITOR)
course == COURSES_TO_MONITOR[course_i]

\* os.getenv gives None for an unset variable.
EnvValues == { "None", "", "secret" }
\* not value
Falsy(v) == v \in { "None", "" }

NoSelection == [region |-> "", unit |-> "", course |-> ""]
NoDom == [units |-> << >>, courses |-> << >>]
NoResult == [value |-> FALSE, log |-> "none"]

\* The option lists the page may show in each dropdown.
RegionOptionLists ==
    { << "--Select--", "Southern", "Northern" >>, << "--Select--", "Northern" >> }
UnitOptionLists ==
    { << "--Select--" >>,
      << "--Select--", "CHENNAI" >>,
      << "--Select--", "HYDERABAD", "CHENNAI" >> }
CourseOptionLists ==
    { << >>,
      << "--Select--" >>,
      << "--Select--" >> \o COURSES_TO_MONITOR }

Labels(options) == { options[k] : k \in 1..Len(options) }

Init ==
    /\ env \in [token : EnvValues, chat : EnvValues]
    /\ pc = "startup"
    /\ driver = "None"
    /\ course_i = 1
    /\ available_courses = << >>
    /\ stage = "Idle"
    /\ dom = NoDom
    /\ selected = NoSelection
    /\ page = NoPage
    /\ result = NoResult
    /\ navigated = << >>
    /\ probed = << >>
    /\ outcomes = << >>
    /\ sent = << >>
    /\ lastSend = "none"
    /\ acquireAttempts = 0
    /\ quits = 0
    /\ quitWarning = FALSE
    /\ exitPending = FALSE
    /\ exitCode = -1

\* Startup asking only that one of the two credentials is set.
StartupNeedsOne ==
    /\ pc = "startup"
    /\ IF Falsy(env.token) /\ Falsy(env.chat)
       THEN /\ pc' = "exited"
            /\ exitCode' = 1
       ELSE /\ pc' = "main"
            /\ UNCHANGED exitCode
    /\ UNCHANGED << env, driver, course_i, available_courses, stage, dom,
                    selected, page, result, navigated, probed, outcomes, sent,
                    lastSend, acquireAttempts, quits, quitWarning, exitPending >>

\* Lines 47-54: the credentials are validated when the module is loaded.
Startup ==
    /\ pc = "startup"
    /\ IF Falsy(env.token) \/ Falsy(env.chat)
       THEN /\ pc' = "exited"
            /\ exitCode' = 1
       ELSE /\ pc' = "main"
            /\ UNCHANGED exitCode
    /\ UNCHANGED << env, driver, course_i, available_courses, stage, dom,
                    selected, page, result, navigated, probed, outcomes, sent,
                    lastSend, acquireAttempts, quits, quitWarning, exitPending >>

\* Acquire trying once more after a failed setup_chrome_driver.
AcquireRetries ==
    /\ pc = "main"
    /\ acquireAttempts' = acquireAttempts + 1
    /\ \E ok \in BOOLEAN :
        IF ok
        THEN /\ driver' = "alive"
             /\ pc' = "loop"
             /\ UNCHANGED exitPending
        ELSE IF acquireAttempts = 0
        THEN UNCHANGED << pc, driver, exitPending >>
        ELSE /\ exitPending' = TRUE
             /\ pc' = "finally"
             /\ UNCHANGED driver
    /\ UNCHANGED << env, course_i, available_courses, stage, dom, selected,
                    page, result, navigated, probed, outcomes, sent, lastSend,
                    quits, quitWarning, exitCode >>

\* Lines 288-293 and 86-117: setup_chrome_driver returns the driver or raises;
\* what it raises reaches line 321 or 324, where sys.exit(1) is raised.
Acquire ==
    /\ pc = "main"
    /\ acquireAttempts' = acquireAttempts + 1
    /\ \E ok \in BOOLEAN :
        IF ok
        THEN /\ driver' = "alive"
             /\ pc' = "loop"
             /\ UNCHANGED exitPending
        ELSE /\ exitPending' = TRUE
             /\ pc' = "finally"
             /\ UNCHANGED driver
    /\ UNCHANGED << env, course_i, available_courses, stage, dom, selected,
                    page, result, navigated, probed, outcomes, sent, lastSend,
                    quits, quitWarning, exitCode >>

\* Navigate keeping the page of the earlier check: the form is not reloaded.
NavigateKeepsPage ==
    /\ pc = "loop"
    /\ course_i <= NumCourses
    /\ navigated' = Append(navigated, course)
    /\ result' = NoResult
    /\ \E ok \in BOOLEAN :
        IF ok
        THEN /\ pc' = "probe"
             /\ stage' = "Called"
             /\ probed' = Append(probed, course)
             /\ UNCHANGED << course_i, outcomes >>
        ELSE /\ pc' = "loop"
             /\ stage' = "Idle"
             /\ outcomes' = Append(outcomes, "nav_error")
             /\ course_i' = course_i + 1
             /\ UNCHANGED probed
    /\ UNCHANGED << env, driver, available_courses, sent, lastSend,
                    acquireAttempts, quits, quitWarning, exitPending, exitCode,
                    dom, selected, page >>

\* Navigate starting a browser of its own for each course.
NavigateNewSession ==
    /\ pc = "loop"
    /\ course_i <= NumCourses
    /\ navigated' = Append(navigated, course)
    /\ acquireAttempts' = acquireAttempts + 1
    /\ dom' = NoDom
    /\ selected' = NoSelection
    /\ page' = NoPage
    /\ result' = NoResult
    /\ \E ok \in BOOLEAN :
        IF ok
        THEN /\ pc' = "probe"
             /\ stage' = "Called"
             /\ probed' = Append(probed, course)
             /\ UNCHANGED << course_i, outcomes >>
        ELSE /\ pc' = "loop"
             /\ stage' = "Idle"
             /\ outcomes' = Append(outcomes, "nav_error")
             /\ course_i' = course_i + 1
             /\ UNCHANGED probed
    /\ UNCHANGED << env, driver, available_courses, sent, lastSend,
                    quits, quitWarning, exitPending, exitCode >>

\* Lines 296-304 and 309-312: the next course, its log line and driver.get.
\* A navigation that raises is caught at line 309 and the loop continues;
\* otherwise check_course_availability is called.
Navigate ==
    /\ pc = "loop"
    /\ course_i <= NumCourses
    /\ navigated' = Append(navigated, course)
    /\ dom' = NoDom
    /\ selected' = NoSelection
    /\ page' = NoPage
    /\ result' = NoResult
    /\ \E ok \in BOOLEAN :
        IF ok
        THEN /\ pc' = "probe"
             /\ stage' = "Called"
             /\ probed' = Append(probed, course)
             /\ UNCHANGED << course_i, outcomes >>
        ELSE /\ pc' = "loop"
             /\ stage' = "Idle"
             /\ outcomes' = Append(outcomes, "nav_error")
             /\ course_i' = course_i + 1
             /\ UNCHANGED probed
    /\ UNCHANGED << env, driver, available_courses, sent, lastSend,
                    acquireAttempts, quits, quitWarning, exitPending, exitCode >>

\* CheckFails returning True from the exception handlers.
CheckFailsTrue(kind) ==
    /\ result' = [value |-> TRUE, log |-> kind]
    /\ pc' = "returned"

\* Lines 271-276: an exception of the cascade is logged and False returned.
\* kind is "timeout" for a TimeoutException and "error" for any other.
CheckFails(kind) ==
    /\ result' = [value |-> FALSE, log |-> kind]
    /\ pc' = "returned"

\* Lines 131-138: the wait for the document body.
WaitBody ==
    /\ pc = "probe"
    /\ stage = "Called"
    /\ \E present \in BOOLEAN :
        IF present
        THEN /\ stage' = "PageLoaded"
             /\ UNCHANGED << pc, result >>
        ELSE /\ CheckFails("timeout")
             /\ UNCHANGED stage
    /\ UNCHANGED << env, driver, course_i, available_courses, dom, selected,
                    page, navigated, probed, outcomes, sent, lastSend,
                    acquireAttempts, quits, quitWarning, exitPending, exitCode >>

\* Lines 151-172: the wait for a visible region dropdown (a timeout is
\* re-raised at line 160) and the selection of REGION by its visible text,
\* which raises NoSuchElementException for a label that is not an option.
SelectRegion ==
    /\ pc = "probe"
    /\ stage = "PageLoaded"
    /\ \E visible \in BOOLEAN, options \in RegionOptionLists :
        IF ~visible
        THEN /\ CheckFails("timeout")
             /\ UNCHANGED << stage, selected >>
        ELSE IF REGION \notin Labels(options)
        THEN /\ CheckFails("error")
             /\ UNCHANGED << stage, selected >>
        ELSE /\ stage' = "RegionSelected"
             /\ selected' = [selected EXCEPT !.region = REGION]
             /\ UNCHANGED << pc, result >>
    /\ UNCHANGED << env, driver, course_i, available_courses, dom, page,
                    navigated, probed, outcomes, sent, lastSend,
                    acquireAttempts, quits, quitWarning, exitPending, exitCode >>

\* SelectUnit waiting for any option, the placeholder included.
SelectUnitAnyOption ==
    /\ pc = "probe"
    /\ stage = "RegionSelected"
    /\ \E present \in BOOLEAN, options \in UnitOptionLists :
        IF ~present
        THEN /\ CheckFails("error")
             /\ UNCHANGED << stage, selected, dom >>
        ELSE /\ dom' = [dom EXCEPT !.units = options]
             /\ IF ~(Len(options) > 0)
                THEN /\ CheckFails("timeout")
                     /\ UNCHANGED << stage, selected >>
                ELSE IF POU \notin Labels(options)
                THEN /\ CheckFails("error")
                     /\ UNCHANGED << stage, selected >>
                ELSE /\ stage' = "UnitSelected"
                     /\ selected' = [selected EXCEPT !.unit = POU]
                     /\ UNCHANGED << pc, result >>
    /\ UNCHANGED << env, driver, course_i, available_courses, page, navigated,
                    probed, outcomes, sent, lastSend, acquireAttempts, quits,
                    quitWarning, exitPending, exitCode >>

\* Lines 174-192: the wait until the unit dropdown holds more than one
\* option, then the selection of POU by its visible text. A dropdown that is
\* not on the page times the wait out as well, and the handler's find_element
\* at line 186 then raises NoSuchElementException.
SelectUnit ==
    /\ pc = "probe"
    /\ stage = "RegionSelected"
    /\ \E present \in BOOLEAN, options \in UnitOptionLists :
        IF ~present
        THEN /\ CheckFails("error")
             /\ UNCHANGED << stage, selected, dom >>
        ELSE /\ dom' = [dom EXCEPT !.units = options]
             /\ IF ~(Len(options) > 1)
                THEN /\ CheckFails("timeout")
                     /\ UNCHANGED << stage, selected >>
                ELSE IF POU \notin Labels(options)
                THEN /\ CheckFails("error")
                     /\ UNCHANGED << stage, selected >>
                ELSE /\ stage' = "UnitSelected"
                     /\ selected' = [selected EXCEPT !.unit = POU]
                     /\ UNCHANGED << pc, result >>
    /\ UNCHANGED << env, driver, course_i, available_courses, page, navigated,
                    probed, outcomes, sent, lastSend, acquireAttempts, quits,
                    quitWarning, exitPending, exitCode >>

\* SelectCourse taking the first option when the label is not among them.
SelectCourseFallsBack ==
    /\ pc = "probe"
    /\ stage = "UnitSelected"
    /\ \E present \in BOOLEAN, options \in CourseOptionLists :
        IF ~present
        THEN /\ CheckFails("error")
             /\ UNCHANGED << stage, selected, dom >>
        ELSE /\ dom' = [dom EXCEPT !.courses = options]
             /\ IF ~(Len(options) > 0)
                THEN /\ CheckFails("timeout")
                     /\ UNCHANGED << stage, selected >>
                ELSE /\ stage' = "CourseSelected"
                     /\ selected' =
                            [selected EXCEPT !.course =
                                IF course \in Labels(options)
                                THEN course ELSE options[1]]
                     /\ UNCHANGED << pc, result >>
    /\ UNCHANGED << env, driver, course_i, available_courses, page, navigated,
                    probed, outcomes, sent, lastSend, acquireAttempts, quits,
                    quitWarning, exitPending, exitCode >>

\* Lines 194-211: the wait until the course dropdown holds an option, then
\* the selection of the course by its visible text.
SelectCourse ==
    /\ pc = "probe"
    /\ stage = "UnitSelected"
    /\ \E present \in BOOLEAN, options \in CourseOptionLists :
        IF ~present
        THEN /\ CheckFails("error")
             /\ UNCHANGED << stage, selected, dom >>
        ELSE /\ dom' = [dom EXCEPT !.courses = options]
             /\ IF ~(Len(options) > 0)
                THEN /\ CheckFails("timeout")
                     /\ UNCHANGED << stage, selected >>
                ELSE IF course \notin Labels(options)
                THEN /\ CheckFails("error")
                     /\ UNCHANGED << stage, selected >>
                ELSE /\ stage' = "CourseSelected"
                     /\ selected' = [selected EXCEPT !.course = course]
                     /\ UNCHANGED << pc, result >>
    /\ UNCHANGED << env, driver, course_i, available_courses, page, navigated,
                    probed, outcomes, sent, lastSend, acquireAttempts, quits,
                    quitWarning, exitPending, exitCode >>

\* Submit clicking as soon as the unit is selected.
SubmitSkipsCourse ==
    /\ pc = "probe"
    /\ stage \in { "UnitSelected", "CourseSelected" }
    /\ \E how \in { "ok", "timeout", "error" }, rendered \in RunPages :
        IF how = "ok"
        THEN /\ stage' = "Submitted"
             /\ page' = rendered
             /\ UNCHANGED << pc, result >>
        ELSE /\ CheckFails(how)
             /\ UNCHANGED << stage, page >>
    /\ UNCHANGED << env, driver, course_i, available_courses, dom, selected,
                    navigated, probed, outcomes, sent, lastSend,
                    acquireAttempts, quits, quitWarning, exitPending, exitCode >>

\* The click of lines 213-221 with the result page it renders: the wait for a
\* clickable button may time out and the click may raise.
Submit ==
    /\ pc = "probe"
    /\ stage = "CourseSelected"
    /\ \E how \in { "ok", "timeout", "error" }, rendered \in RunPages :
        IF how = "ok"
        THEN /\ stage' = "Submitted"
             /\ page' = rendered
             /\ UNCHANGED << pc, result >>
        ELSE /\ CheckFails(how)
             /\ UNCHANGED << stage, page >>
    /\ UNCHANGED << env, driver, course_i, available_courses, dom, selected,
                    navigated, probed, outcomes, sent, lastSend,
                    acquireAttempts, quits, quitWarning, exitPending, exitCode >>

\* Lines 223-269: the result page is classified and the value returned.
Classify ==
    /\ pc = "probe"
    /\ stage = "Submitted"
    /\ \E fault \in ReadFaults : result' = Classification(page, fault)
    /\ stage' = "Classified"
    /\ pc' = "returned"
    /\ UNCHANGED << env, driver, course_i, available_courses, dom, selected,
                    page, navigated, probed, outcomes, sent, lastSend,
                    acquireAttempts, quits, quitWarning, exitPending, exitCode >>

\* How a finished check ended: it failed with an exception, or it classified
\* the page.
OutcomeOf(r) ==
    IF r.log \in { "timeout", "error" } THEN "failed"
    ELSE IF r.value THEN "available"
    ELSE "unavailable"

\* Return leaving the loop when the check failed.
ReturnBreaksOnFailure ==
    /\ pc = "returned"
    /\ outcomes' = Append(outcomes, OutcomeOf(result))
    /\ IF result.value
       THEN /\ available_courses' = Append(available_courses, course)
            /\ pc' = "notify"
            /\ UNCHANGED course_i
       ELSE /\ pc' = IF OutcomeOf(result) = "failed" THEN "finally" ELSE "loop"
            /\ course_i' = course_i + 1
            /\ UNCHANGED available_courses
    /\ UNCHANGED << env, driver, stage, dom, selected, page, result, navigated,
                    probed, sent, lastSend, acquireAttempts, quits,
                    quitWarning, exitPending, exitCode >>

\* Return trying a failed check of a course once more.
ReturnRetriesOnce ==
    /\ pc = "returned"
    /\ IF result.value
       THEN /\ available_courses' = Append(available_courses, course)
            /\ outcomes' = Append(outcomes, OutcomeOf(result))
            /\ pc' = "notify"
            /\ UNCHANGED course_i
       ELSE IF OutcomeOf(result) = "failed" /\ Len(navigated) = course_i
       THEN /\ pc' = "loop"
            /\ UNCHANGED << course_i, outcomes, available_courses >>
       ELSE /\ pc' = "loop"
            /\ outcomes' = Append(outcomes, OutcomeOf(result))
            /\ course_i' = course_i + 1
            /\ UNCHANGED available_courses
    /\ UNCHANGED << env, driver, stage, dom, selected, page, result, navigated,
                    probed, sent, lastSend, acquireAttempts, quits,
                    quitWarning, exitPending, exitCode >>

\* Lines 304-305: main tests the returned value; a true one appends the
\* course to available_courses, a false one ends the iteration.
Return ==
    /\ pc = "returned"
    /\ outcomes' = Append(outcomes, OutcomeOf(result))
    /\ IF result.value
       THEN /\ available_courses' = Append(available_courses, course)
            /\ pc' = "notify"
            /\ UNCHANGED course_i
       ELSE /\ pc' = "loop"
            /\ course_i' = course_i + 1
            /\ UNCHANGED available_courses
    /\ UNCHANGED << env, driver, stage, dom, selected, page, result, navigated,
                    probed, sent, lastSend, acquireAttempts, quits,
                    quitWarning, exitPending, exitCode >>

\* Notify sending a second time after a failed delivery.
NotifyRetries ==
    /\ pc = "notify"
    /\ \E how \in { "ok", "failed", "raised" } :
        /\ lastSend' = how
        /\ sent' = IF how = "failed"
                   THEN Append(Append(sent, course), course)
                   ELSE Append(sent, course)
    /\ pc' = "loop"
    /\ course_i' = course_i + 1
    /\ UNCHANGED << env, driver, available_courses, stage, dom, selected,
                    page, result, navigated, probed, outcomes,
                    acquireAttempts, quits, quitWarning, exitPending, exitCode >>

\* Notify ending the run when the delivery fails.
NotifyAbortsOnFailure ==
    /\ pc = "notify"
    /\ sent' = Append(sent, course)
    /\ \E how \in { "ok", "failed", "raised" } :
        /\ lastSend' = how
        /\ IF how = "ok"
           THEN /\ pc' = "loop"
                /\ UNCHANGED exitPending
           ELSE /\ pc' = "finally"
                /\ exitPending' = TRUE
    /\ course_i' = course_i + 1
    /\ UNCHANGED << env, driver, available_courses, stage, dom, selected,
                    page, result, navigated, probed, outcomes,
                    acquireAttempts, quits, quitWarning, exitCode >>

\* Notify taking a course whose notification was not delivered off the list.
NotifyDropsUndelivered ==
    /\ pc = "notify"
    /\ sent' = Append(sent, course)
    /\ \E how \in { "ok", "failed", "raised" } :
        /\ lastSend' = how
        /\ available_courses' =
                IF how = "ok" THEN available_courses
                ELSE SubSeq(available_courses, 1, Len(available_courses) - 1)
    /\ pc' = "loop"
    /\ course_i' = course_i + 1
    /\ UNCHANGED << env, driver, stage, dom, selected,
                    page, result, navigated, probed, outcomes,
                    acquireAttempts, quits, quitWarning, exitPending, exitCode >>

\* Lines 307-312 and 57-83: one call of send_telegram_notification. It
\* returns True, or False for a RequestException; any other exception it
\* raises is caught at line 309. The loop continues in each case.
Notify ==
    /\ pc = "notify"
    /\ sent' = Append(sent, course)
    /\ \E how \in { "ok", "failed", "raised" } : lastSend' = how
    /\ pc' = "loop"
    /\ course_i' = course_i + 1
    /\ UNCHANGED << env, driver, available_courses, stage, dom, selected,
                    page, result, navigated, probed, outcomes,
                    acquireAttempts, quits, quitWarning, exitPending, exitCode >>

\* Lines 314-319: after the last course the summary is logged.
Summary ==
    /\ pc = "loop"
    /\ course_i > NumCourses
    /\ pc' = "finally"
    /\ UNCHANGED << env, driver, course_i, available_courses, stage, dom,
                    selected, page, result, navigated, probed, outcomes, sent,
                    lastSend, acquireAttempts, quits, quitWarning, exitPending,
                    exitCode >>

\* Release after a driver.quit already made at the end of the try block.
ReleaseTwice ==
    /\ pc = "finally"
    /\ IF driver # "None"
       THEN /\ quits' = quits + 2
            /\ driver' = "quit"
            /\ \E raised \in BOOLEAN : quitWarning' = raised
       ELSE UNCHANGED << quits, driver, quitWarning >>
    /\ pc' = "end"
    /\ UNCHANGED << env, course_i, available_courses, stage, dom, selected,
                    page, result, navigated, probed, outcomes, sent, lastSend,
                    acquireAttempts, exitPending, exitCode >>

\* Lines 327-334: the finally block quits a driver that was set; an exception
\* of driver.quit is caught and logged as a warning.
Release ==
    /\ pc = "finally"
    /\ IF driver # "None"
       THEN /\ quits' = quits + 1
            /\ driver' = "quit"
            /\ \E raised \in BOOLEAN : quitWarning' = raised
       ELSE UNCHANGED << quits, driver, quitWarning >>
    /\ pc' = "end"
    /\ UNCHANGED << env, course_i, available_courses, stage, dom, selected,
                    page, result, navigated, probed, outcomes, sent, lastSend,
                    acquireAttempts, exitPending, exitCode >>

\* Exit with the exception of driver.quit escalated to the exit status.
ExitEscalatesQuit ==
    /\ pc = "end"
    /\ exitCode' = IF exitPending \/ quitWarning THEN 1 ELSE 0
    /\ pc' = "exited"
    /\ UNCHANGED << env, driver, course_i, available_courses, stage, dom,
                    selected, page, result, navigated, probed, outcomes, sent,
                    lastSend, acquireAttempts, quits, quitWarning, exitPending >>

\* Exit with a non-zero status when a check of the run failed.
ExitFailsOnFailedCheck ==
    /\ pc = "end"
    /\ exitCode' = IF exitPending
                      \/ \E k \in 1..Len(outcomes) :
                            outcomes[k] \in { "failed", "nav_error" }
                   THEN 1 ELSE 0
    /\ pc' = "exited"
    /\ UNCHANGED << env, driver, course_i, available_courses, stage, dom,
                    selected, page, result, navigated, probed, outcomes, sent,
                    lastSend, acquireAttempts, quits, quitWarning, exitPending >>

\* Lines 336-342: a pending SystemExit(1) leaves main after the finally block
\* and sets the status; otherwise main returns and the status is 0.
Exit ==
    /\ pc = "end"
    /\ exitCode' = IF exitPending THEN 1 ELSE 0
    /\ pc' = "exited"
    /\ UNCHANGED << env, driver, course_i, available_courses, stage, dom,
                    selected, page, result, navigated, probed, outcomes, sent,
                    lastSend, acquireAttempts, quits, quitWarning, exitPending >>

Next ==
    \/ Startup
    \/ Acquire
    \/ Navigate
    \/ WaitBody
    \/ SelectRegion
    \/ SelectUnit
    \/ SelectCourse
    \/ Submit
    \/ Classify
    \/ Return
    \/ Notify
    \/ Summary
    \/ Release
    \/ Exit

Spec == Init /\ [][Next]_vars

\* The run with every step taken in the end: a browser operation completes or
\* raises and a bounded wait completes or times out, so the process is never
\* stopped for ever at a step it can take.
FairSpec == Spec /\ WF_vars(Next)

\* ------------------------------------------------- classification in isolation
\* The first course-check of a run, submitted, on any result page.
InitClassify ==
    /\ env = [token |-> "secret", chat |-> "secret"]
    /\ pc = "probe"
    /\ driver = "alive"
    /\ course_i = 1
    /\ available_courses = << >>
    /\ stage = "Submitted"
    /\ dom = [units |-> << "--Select--", "HYDERABAD", "CHENNAI" >>,
              courses |-> << "--Select--" >> \o COURSES_TO_MONITOR]
    /\ selected = [region |-> REGION, unit |-> POU,
                   course |-> COURSES_TO_MONITOR[1]]
    /\ page \in Pages
    /\ result = NoResult
    /\ navigated = << COURSES_TO_MONITOR[1] >>
    /\ probed = << COURSES_TO_MONITOR[1] >>
    /\ outcomes = << >>
    /\ sent = << >>
    /\ lastSend = "none"
    /\ acquireAttempts = 1
    /\ quits = 0
    /\ quitWarning = FALSE
    /\ exitPending = FALSE
    /\ exitCode = -1

NextClassify == Classify

SpecClassify == InitClassify /\ [][NextClassify]_vars

\* ------------------------------------------------------------------ claims
\* The negative-result phrases, as sets of words.
NegativePhrases ==
    { << "no", "batch", "available" >>, << "no", "batch" >>,
      << "no", "records", "found" >>, << "batch", "not", "available" >> }

\* The page content holds a negative-result phrase, in any letter case.
MentionsNegative(p) ==
    \E phrase \in NegativePhrases : Occurs(phrase, LowerText(p.source))

\* Some word of the page source is not in lower case.
HasUpperCase(p) == \E k \in 1..Len(p.source) : Lower(p.source[k]) # p.source[k]

TableIndexes(p) == 1..Len(p.tables)

\* The classification ran to its end: no read of the page raised.
Classified == stage = "Classified" /\ result.log # "error"

\* The run is over or in its teardown.
Ended == pc \in { "finally", "end", "exited" }

\* The courses among the attempted ones whose check ended as kind, in the
\* configured order.
CoursesEnding(kind) ==
    LET idx == SelectSeq([k \in 1..Len(outcomes) |-> k],
                         LAMBDA k : outcomes[k] = kind)
    IN  [n \in 1..Len(idx) |-> COURSES_TO_MONITOR[idx[n]]]

Elements(seq) == { seq[k] : k \in 1..Len(seq) }

\* C1: a result page whose content holds a negative-result phrase, in any
\* letter case, is classified unavailable whatever tables it holds.
C1_NegativePhraseWins ==
    (stage = "Classified" /\ MentionsNegative(page)) => result.value = FALSE

\* A page with a negative phrase in upper case beside a table of several rows
\* and long text was classified.
C1_Witness ==
    /\ stage = "Classified"
    /\ result.log = "no_slots"
    /\ MentionsNegative(page)
    /\ HasUpperCase(page)
    /\ page.tables # << >>
    /\ Head(page.tables).rows >= 2
    /\ StrippedLen(Head(page.tables).text) > MinTextLen

\* C2: a result page with no negative-result phrase and a table of at least
\* two rows, read without a driver error, is classified available.
C2_TwoRowsAvailable ==
    ( /\ Classified
      /\ ~MentionsNegative(page)
      /\ \E k \in TableIndexes(page) : page.tables[k].rows >= 2 )
    => result.value = TRUE

\* A page whose only evidence is one table of exactly two rows was classified.
C2_Witness ==
    /\ Classified
    /\ ~MentionsNegative(page)
    /\ Len(page.tables) = 1
    /\ page.tables[1].rows = 2
    /\ StrippedLen(page.tables[1].text) <= MinTextLen
    /\ result.value = TRUE

\* C3: a result page with no negative-result phrase, no table of more than
\* one row and no table text above the threshold is classified unavailable.
C3_ConservativeDefault ==
    ( /\ stage = "Classified"
      /\ ~MentionsNegative(page)
      /\ \A k \in TableIndexes(page) : page.tables[k].rows <= 1
      /\ \A k \in TableIndexes(page) :
            StrippedLen(page.tables[k].text) <= MinTextLen )
    => result.value = FALSE

\* C4, as claimed: a course-check that failed in the cascade has a result that
\* is neither true nor false.
C4_FailedCheckHasNoResult ==
    (pc = "returned" /\ stage # "Classified") => result.value \notin BOOLEAN

\* C4, amended: a course-check that failed in the cascade returns False, the
\* value of a completed check that found no slot; no notification is sent for
\* it and it is not added to available_courses.
C4_FailedCheckReturnsFalse ==
    /\ (pc = "returned" /\ stage # "Classified") =>
            (result.value = FALSE /\ result.log \in { "timeout", "error" })
    /\ \A c \in Elements(CoursesEnding("failed")) :
            c \notin Elements(sent) /\ c \notin Elements(available_courses)

\* A check timed out waiting for the unit dropdown and has returned.
C4_Witness ==
    /\ pc = "returned"
    /\ stage = "RegionSelected"
    /\ result = [value |-> FALSE, log |-> "timeout"]

\* C5: whatever checks failed, once the course loop is left every configured
\* course was attempted, in the configured order.
C5_FailureIsolation ==
    (Ended /\ driver # "None") =>
        /\ navigated = COURSES_TO_MONITOR
        /\ Len(outcomes) = NumCourses
        /\ course_i = NumCourses + 1

\* A run ended whose first check failed in the cascade, whose second failed
\* at navigation and whose third was attempted.
C5_Witness ==
    /\ pc = "exited"
    /\ Len(outcomes) = NumCourses
    /\ outcomes[1] = "failed"
    /\ outcomes[2] = "nav_error"
    /\ outcomes[3] \in { "available", "unavailable" }

\* The position of a course in COURSES_TO_MONITOR.
IndexOf(c) == CHOOSE k \in 1..NumCourses : COURSES_TO_MONITOR[k] = c

\* C6: check_course_availability is called at most once per course and in the
\* configured order, each call right after a navigation made for that course,
\* on a page that shows nothing of an earlier check.
C6_OncePerCourseFreshPage ==
    /\ \A m, n \in 1..Len(probed) :
            m < n => IndexOf(probed[m]) < IndexOf(probed[n])
    /\ navigated = SubSeq(COURSES_TO_MONITOR, 1, Len(navigated))
    /\ pc \in { "probe", "returned", "notify" } =>
            /\ probed[Len(probed)] = course
            /\ navigated[Len(navigated)] = course
    /\ (pc = "probe" /\ stage = "Called") =>
            /\ page = NoPage
            /\ dom = NoDom
            /\ selected = NoSelection

\* The third course's check was just called after a completed check of the
\* first course and a failed navigation for the second.
C6_Witness ==
    /\ pc = "probe"
    /\ stage = "Called"
    /\ course_i = 3
    /\ outcomes = << "available", "nav_error" >>
    /\ probed = << COURSES_TO_MONITOR[1], COURSES_TO_MONITOR[3] >>

\* C7: driver.quit is never called twice, never called without a driver, and
\* called exactly once by the end of any run that acquired a driver.
C7_ReleasedExactlyOnce ==
    /\ quits <= 1
    /\ driver = "None" => quits = 0
    /\ (pc \in { "end", "exited" } /\ driver # "None") => quits = 1

\* A run with a failed check ended with its driver released.
C7_Witness ==
    /\ pc = "exited"
    /\ quits = 1
    /\ driver = "quit"
    /\ "failed" \in Elements(outcomes)
    /\ "nav_error" \in Elements(outcomes)

\* C8: an exception of driver.quit leaves the run to end with the status it
\* would have had, zero after the course loop.
C8_TeardownFailureNotEscalated ==
    (pc = "exited" /\ quitWarning) => (exitCode = 0 /\ ~exitPending)

\* A run ended after driver.quit raised.
C8_Witness ==
    /\ pc = "exited"
    /\ quitWarning
    /\ quits = 1

\* C9: the notification attempts are exactly the courses classified
\* available, one each, in order; none for an unavailable or failed check.
C9_OneNotificationPerAvailable ==
    /\ pc # "notify" => sent = CoursesEnding("available")
    /\ pc = "notify" => Append(sent, course) = CoursesEnding("available")
    /\ \A c \in Elements(sent) :
            /\ c \notin Elements(CoursesEnding("unavailable"))
            /\ c \notin Elements(CoursesEnding("failed"))
            /\ c \notin Elements(CoursesEnding("nav_error"))

\* A run ended with the first course available, the second unavailable and
\* the third failed, and one notification, for the first.
C9_Witness ==
    /\ pc = "exited"
    /\ outcomes = << "available", "unavailable", "failed" >>
    /\ sent = << COURSES_TO_MONITOR[1] >>
    /\ available_courses = << COURSES_TO_MONITOR[1] >>

\* C10: after a failed setup_chrome_driver the run makes no navigation, no
\* course check and no notification, does not call setup_chrome_driver again
\* and ends with a non-zero status.
C10_AcquisitionFailureIsFatal ==
    exitPending =>
        /\ Ended
        /\ acquireAttempts = 1
        /\ driver = "None"
        /\ navigated = << >>
        /\ probed = << >>
        /\ sent = << >>
        /\ outcomes = << >>
        /\ pc = "exited" => exitCode = 1

\* A run ended after setup_chrome_driver raised.
C10_Witness ==
    /\ pc = "exited"
    /\ exitPending
    /\ acquireAttempts = 1
    /\ exitCode = 1

\* A credential that is unset or empty.
Missing(v) == v = "None" \/ v = ""

\* C11: with the bot token or the chat id unset or empty the process does
\* nothing but exit with a non-zero status: no driver, no navigation, no
\* course check and no notification.
C11_MissingCredentialsExitEarly ==
    (Missing(env.token) \/ Missing(env.chat)) =>
        /\ pc \in { "startup", "exited" }
        /\ acquireAttempts = 0
        /\ driver = "None"
        /\ navigated = << >>
        /\ probed = << >>
        /\ sent = << >>
        /\ pc = "exited" => exitCode = 1

\* The process exited with the token set and the chat id empty.
C11_Witness ==
    /\ pc = "exited"
    /\ env = [token |-> "secret", chat |-> ""]
    /\ exitCode = 1

\* C12: a run that acquired its driver ends with status 0 after every
\* configured course was attempted, whatever checks failed and whatever slots
\* were found; a non-zero status is that of a failed setup_chrome_driver or of
\* the credential check.
C12_ExitZeroAfterLoop ==
    pc = "exited" =>
        /\ driver # "None" =>
                /\ exitCode = 0
                /\ navigated = COURSES_TO_MONITOR
                /\ Len(outcomes) = NumCourses
        /\ exitCode # 0 =>
                /\ driver = "None"
                /\ exitPending \/ Missing(env.token) \/ Missing(env.chat)

\* A run whose every check failed has exited.
C12_Witness ==
    /\ pc = "exited"
    /\ driver = "quit"
    /\ exitCode = 0
    /\ outcomes = << "failed", "nav_error", "failed" >>

\* Course-checks begun and not yet ended.
ChecksInProgress == Len(navigated) - Len(outcomes)

\* C13: setup_chrome_driver is called at most once, so a run never holds two
\* sessions; from the first course to the summary that one session is alive
\* and not yet quit, and at most one course-check is in progress on it.
C13_OneSession ==
    /\ acquireAttempts <= 1
    /\ pc \in { "loop", "probe", "returned", "notify" } =>
            /\ driver = "alive"
            /\ acquireAttempts = 1
            /\ quits = 0
    /\ ChecksInProgress \in { 0, 1 }
    /\ ChecksInProgress = 1 <=> pc \in { "probe", "returned" }

\* The third course-check is in progress on the session the first two used.
C13_Witness ==
    /\ pc = "probe"
    /\ stage = "RegionSelected"
    /\ course_i = 3
    /\ Len(probed) = 3
    /\ driver = "alive"
    /\ acquireAttempts = 1

\* The position of the course the latest notification was sent for.
LastSentIndex == IndexOf(sent[Len(sent)])

\* C14: a notification that was not delivered is not sent again, the loop
\* goes on with the next course, the run is not aborted and ends with
\* status 0.
C14_DeliveryFailureIgnored ==
    /\ \A m, n \in 1..Len(sent) : m # n => sent[m] # sent[n]
    /\ lastSend \in { "failed", "raised" } =>
            /\ ~exitPending
            /\ pc \in { "loop", "probe", "returned", "notify" } =>
                    course_i > LastSentIndex
            /\ Ended =>
                    /\ navigated = COURSES_TO_MONITOR
                    /\ Len(outcomes) = NumCourses
            /\ pc = "exited" => exitCode = 0

\* The second course is being checked after the notification for the first
\* was not delivered.
C14_Witness ==
    /\ lastSend = "failed"
    /\ sent = << COURSES_TO_MONITOR[1] >>
    /\ pc = "probe"
    /\ course_i = 2
    /\ stage = "PageLoaded"

\* A run ended with status 0 after its last notification raised.
C14_WitnessExit ==
    /\ lastSend = "raised"
    /\ pc = "exited"
    /\ exitCode = 0
    /\ sent[Len(sent)] = COURSES_TO_MONITOR[NumCourses]

\* The states of one course-check in their order; "Called" is the check
\* entered and the document body not yet waited for.
StageOrder ==
    << "Called", "PageLoaded", "RegionSelected", "UnitSelected",
       "CourseSelected", "Submitted", "Classified" >>

StageIndex(st) == CHOOSE k \in 1..Len(StageOrder) : StageOrder[k] = st

\* What each state of a course-check has behind it.
StageHolds ==
    /\ stage \in { "RegionSelected", "UnitSelected", "CourseSelected",
                   "Submitted", "Classified" } => selected.region = REGION
    /\ stage \in { "UnitSelected", "CourseSelected", "Submitted",
                   "Classified" } => selected.unit = POU
    /\ stage \in { "CourseSelected", "Submitted", "Classified" } =>
            selected.course = probed[Len(probed)]
    /\ stage \notin { "Submitted", "Classified" } => page = NoPage
    /\ result.log \in { "no_slots", "slots", "undetermined" } =>
            stage = "Classified"
    /\ result.value => stage = "Classified"

\* A step that changes the state of the course-check moves it to the next
\* state of the order, or begins the check of the next course.
StageAdvances ==
    stage' # stage =>
        \/ /\ pc = "loop"
           /\ stage' \in { "Called", "Idle" }
        \/ /\ stage \in Elements(StageOrder)
           /\ stage' \in Elements(StageOrder)
           /\ StageIndex(stage') = StageIndex(stage) + 1

\* C15: within one course-check the states follow one another in the order
\* PageLoaded, RegionSelected, UnitSelected, CourseSelected, Submitted,
\* Classified, none skipped and none returned to; the click comes after the
\* three selections and the classification after the click.
C15_StagesInOrder == [](StageHolds) /\ [][StageAdvances]_vars

\* A course-check went through every state and was classified.
C15_Witness ==
    /\ stage = "Classified"
    /\ pc = "returned"
    /\ selected = [region |-> REGION, unit |-> POU, course |-> course]
    /\ result.log = "slots"

C17_MissingLabelFails ==
    /\ selected.course # "" =>
            /\ selected.course = probed[Len(probed)]
            /\ selected.course \in Labels(dom.courses)
    /\ (stage = "UnitSelected" /\ dom.courses # << >>
            /\ probed[Len(probed)] \notin Labels(dom.courses)) =>
            /\ selected.course = ""
            /\ page = NoPage
            /\ pc # "notify"
            /\ probed[Len(probed)] \notin Elements(sent)
            /\ probed[Len(probed)] \notin Elements(available_courses)
            /\ pc = "returned" => result = [value |-> FALSE, log |-> "error"]

\* The loop went on after a check found only the placeholder in the course
\* dropdown.
C17_Witness ==
    /\ pc = "loop"
    /\ course_i = 2
    /\ stage = "UnitSelected"
    /\ dom.courses = << "--Select--" >>
    /\ outcomes = << "failed" >>

\* C18: with no negative-result phrase and at most one table row counted, the
\* page is classified available exactly when one of its tables has a stripped
\* text of more than 50 characters.
C18_TextThreshold ==
    ( /\ Classified
      /\ ~MentionsNegative(page)
      /\ batch_rows(page.tables) <= 1 )
    => ( result.value <=>
            \E k \in TableIndexes(page) :
                StrippedLen(page.tables[k].text) > MinTextLen )

\* C19: available_courses is at every moment the courses classified
\* available so far, in the configured order, with none of a failed or
\* unavailable check; a course is on the list before its notification is
\* attempted and stays on it when the delivery fails.
C19_SummaryIsAvailableCourses ==
    /\ available_courses = CoursesEnding("available")
    /\ \A c \in Elements(available_courses) :
            /\ c \notin Elements(CoursesEnding("failed"))
            /\ c \notin Elements(CoursesEnding("unavailable"))
            /\ c \notin Elements(CoursesEnding("nav_error"))
    /\ pc = "notify" =>
            /\ available_courses[Len(available_courses)] = course
            /\ course \notin Elements(sent)
    /\ lastSend \in { "failed", "raised" } =>
            sent[Len(sent)] \in Elements(available_courses)

\* A run ended with the first and third course on the list, the second check
\* failed and the notification for the third not delivered.
C19_Witness ==
    /\ pc = "exited"
    /\ outcomes = << "available", "failed", "available" >>
    /\ available_courses = << COURSES_TO_MONITOR[1], COURSES_TO_MONITOR[3] >>
    /\ lastSend = "failed"

\* The steps of one course-check, from the navigation to the notification.
StepsPerCourse == Len(StageOrder) + 3

\* The steps the process has left at most: every step of the run lowers it.
StepsLeft ==
    LET later == 3 + StepsPerCourse * (NumCourses - course_i)
    IN  CASE pc = "exited" -> 0
          [] pc = "end" -> 1
          [] pc = "finally" -> 2
          [] pc = "loop" -> later + StepsPerCourse
          [] pc = "probe" -> later + StepsPerCourse - StageIndex(stage)
          [] pc = "returned" -> later + 3
          [] pc = "notify" -> later + 2
          [] pc = "main" -> 4 + StepsPerCourse * NumCourses
          [] pc = "startup" -> 5 + StepsPerCourse * NumCourses

\* No course is navigated to or checked twice.
NoCheckRepeated ==
    /\ Len(navigated) <= NumCourses
    /\ Len(probed) <= Len(navigated)
    /\ \A m, n \in 1..Len(navigated) : m # n => navigated[m] # navigated[n]
    /\ \A m, n \in 1..Len(probed) : m # n => probed[m] # probed[n]

\* C20: when every browser operation and every bounded wait completes or
\* times out, the run ends. No course is navigated to or checked twice; the
\* process can take a step until it has exited, each step leaves fewer steps
\* to take, and it exits only through the teardown. With the steps taken in
\* the end (FairSpec) the process therefore exits.
C20_RunTerminates ==
    /\ [](NoCheckRepeated)
    /\ [](StepsLeft \in Nat)
    /\ [](pc # "exited" => ENABLED Next)
    /\ [](pc = "exited" /\ driver # "None" => quits = 1)
    /\ [][StepsLeft' < StepsLeft]_vars

\* The same as a property of the fair run: the process exits.
C20_Eventually == <>(pc = "exited")

\* A run exited after three checks, one of them failed, and its teardown.
C20_Witness ==
    /\ pc = "exited"
    /\ Len(probed) = NumCourses
    /\ "failed" \in Elements(outcomes)
    /\ quits = 1

====
